---- MODULE Spec2Model ----
(* Model of the BattleMetrics cog (src/battlemetrics.py): the background     *)
(* update loop, the admin commands that feed it and the two remote APIs it   *)
(* talks to.  Strings are sequences of one-character strings, so that        *)
(* formatting and truncation are computed, not assumed.                      *)
EXTENDS Integers, Sequences, FiniteSets, TLC

(***************************************************************************)
(* Bounds of the model                                                     *)
(***************************************************************************)
LongLen == 95        \* length of the long custom name an operator may give
MaxChannels == 2     \* number of voice channels the add command may create

(***************************************************************************)
(* Program constants                                                       *)
(***************************************************************************)
DefaultInterval == 300
MinInterval == 60
InitialDelay == 10
NameLimit == 100
PaceDelay == 2        \* seconds the loop sleeps after an entry it has taken up

(***************************************************************************)
(* Strings                                                                 *)
(***************************************************************************)
Min(a, b) == IF a < b THEN a ELSE b

Digits == <<"0", "1", "2", "3", "4", "5", "6", "7", "8", "9">>

RECURSIVE IntStr(_)
\* str(n) for a non-negative integer, as the replacement field renders it
IntStr(n) == IF n < 10 THEN <<Digits[n + 1]>>
             ELSE IntStr(n \div 10) \o <<Digits[(n % 10) + 1]>>

\* s[:100]
Truncate(s) == SubSeq(s, 1, Min(Len(s), NameLimit))

OFFLINE_PREFIX == <<"[", "O", "F", "F", "L", "I", "N", "E", "]", " ">>
Unknown == <<"U", "n", "k", "n", "o", "w", "n">>
UnknownServer == Unknown \o <<" ", "S", "e", "r", "v", "e", "r">>
online == <<"o", "n", "l", "i", "n", "e">>
offline == <<"o", "f", "f", "l", "i", "n", "e">>
Alpha == <<"A", "l", "p", "h", "a">>
LongName == [i \in 1..LongLen |-> "x"]

F_players == <<"p", "l", "a", "y", "e", "r", "s">>
F_max == <<"m", "a", "x">>
F_name == <<"n", "a", "m", "e">>
F_status == <<"s", "t", "a", "t", "u", "s">>

\* channel_format default registered for every guild
DefaultFormat == <<"[", "{">> \o F_players \o <<"}", "/", "{">> \o F_max
                 \o <<"}", "]", " ", "{">> \o F_name \o <<"}">>
\* a template naming a placeholder the cog does not pass to format()
MapFormat == <<"{">> \o F_name \o <<"}", " ", "{", "m", "a", "p", "}">>
Templates == {DefaultFormat, MapFormat}

(***************************************************************************)
(* str.format with the keyword arguments players, max, name, status        *)
(***************************************************************************)
Ok(s) == [exc |-> "none", out |-> s]
Raise(e) == [exc |-> e, out |-> <<>>]

RECURSIVE CloseBrace(_, _)
\* index of the first "}" of t at or after i, 0 when there is none
CloseBrace(t, i) == IF i > Len(t) THEN 0
                    ELSE IF t[i] = "}" THEN i
                    ELSE CloseBrace(t, i + 1)

IsDigits(f) == \A k \in 1..Len(f) : \E d \in 1..10 : f[k] = Digits[d]

\* the value a replacement field resolves to: positional fields have no
\* argument (IndexError), unknown keywords raise KeyError
Field(f, kw) == IF f = <<>> \/ IsDigits(f) THEN Raise("IndexError")
                ELSE IF f = F_players THEN Ok(IntStr(kw.players))
                ELSE IF f = F_max THEN Ok(IntStr(kw.max))
                ELSE IF f = F_name THEN Ok(kw.name)
                ELSE IF f = F_status THEN Ok(kw.status)
                ELSE Raise("KeyError")

RECURSIVE FormatFrom(_, _, _, _)
FormatFrom(t, i, kw, acc) ==
    IF i > Len(t) THEN Ok(acc)
    ELSE IF t[i] = "{" THEN
        IF i = Len(t) THEN Raise("ValueError")
        ELSE IF t[i + 1] = "{" THEN FormatFrom(t, i + 2, kw, Append(acc, "{"))
        ELSE LET j == CloseBrace(t, i + 1) IN
             IF j = 0 THEN Raise("ValueError")
             ELSE LET v == Field(SubSeq(t, i + 1, j - 1), kw) IN
                  IF v.exc # "none" THEN v
                  ELSE FormatFrom(t, j + 1, kw, acc \o v.out)
    ELSE IF t[i] = "}" THEN
        IF i < Len(t) /\ t[i + 1] = "}"
        THEN FormatFrom(t, i + 2, kw, Append(acc, "}"))
        ELSE Raise("ValueError")
    ELSE FormatFrom(t, i + 1, kw, Append(acc, t[i]))

\* channel_format.format(players=, max=, name=, status=)
format(t, kw) == FormatFrom(t, 1, kw, <<>>)

(***************************************************************************)
(* Dictionaries                                                            *)
(***************************************************************************)
\* d.get(k, default)
Get(d, k, default) == IF k \in DOMAIN d THEN d[k] ELSE default

\* what _fetch_server_info can return: None, or the "data" member
NoInfo == [none |-> TRUE]
OnlineInfo == [attributes |-> [players |-> 12, maxPlayers |-> 64,
                               name |-> Alpha, status |-> online]]
OfflineInfo == [attributes |-> [players |-> 12, maxPlayers |-> 64,
                                name |-> Alpha, status |-> offline]]
Infos == {OnlineInfo, OfflineInfo}

\* "not info"
Falsy(info) == info = NoInfo


EmptyDict == [k \in {} |-> 0]

(***************************************************************************)
(* The world: guilds, external server ids, categories                      *)
(***************************************************************************)
Guilds == {"g1", "g2"}
BotGuilds == <<"g1", "g2">>          \* bot.guilds
ServerIds == {"s1", "s2"}
ChanIds == 1..MaxChannels            \* ids of the voice channels created
NoCategory == "None"
CategoryIds == {"cat"}
\* the add commands given: guild, external id, custom name (or none)
AddInputs == {<<"g1", "s1", <<>>>>, <<"g1", "s2", LongName>>,
              <<"g2", "s1", <<>>>>}
IntervalInputs == {59, 60}           \* the seconds argument of setinterval
NoToken == "None"                    \* line 32: the default of api_token
TokenInputs == {"token"}             \* the token argument of settoken
FormatGuilds == {"g1"}               \* the guilds where setformat is used
RefreshGuilds == {"g1"}              \* the guilds where refresh is used
AddSlots == {1, 2}                   \* add commands that may run at a time
RemoveSlots == {1, 2}                \* remove commands that may run at a time

NoEntry == [id |-> "None", data |-> EmptyDict]

VARIABLES
    update_interval,   \* config: global update_interval
    api_token,         \* config: global api_token
    servers,           \* config: per guild, the tracked servers in dict order
    category_id,       \* config: per guild
    channel_format,    \* config: per guild
    bot_ready,         \* the bot has signalled readiness
    since_ready,       \* seconds the loop has slept since readiness (capped)
    channels,          \* per guild, the voice channels: name and state
    categories,        \* per guild, the categories that exist
    next_id,           \* id the destination gives the next channel
    session,           \* the aiohttp session: "none", "open", "closed"
    loop,              \* the _update_loop task: position and locals
    add_task,          \* the running add commands
    remove_task,       \* the running remove commands
    servers_lock,      \* config: per guild, who holds the lock of servers
    refresh_task,      \* a running refresh command
    last_reply,        \* what the last setinterval command answered
    hist               \* history: what the last two passes did with an entry

vars == <<update_interval, api_token, servers, category_id, channel_format, bot_ready,
          since_ready, channels, categories, next_id, session, loop,
          add_task, remove_task, servers_lock, refresh_task, last_reply,
          hist>>

config_vars == <<update_interval, api_token, servers, category_id,
                 channel_format>>
discord_vars == <<channels, categories, next_id>>
admin_vars == <<add_task, remove_task, servers_lock>>
cmd_vars == <<admin_vars, refresh_task, last_reply>>

NoChannel == [name |-> <<>>, state |-> "none"]
IdleTask == [pc |-> "idle"]
Free == <<"free", 0>>                \* nobody holds the lock

\* the task before it is created; pass and outcome record how the last pass
\* and the last entry taken ended, unpaced that a channel was compared and
\* the delay of line 163 has not been slept since
IdleLoop == [pc |-> "none", cancel |-> "no", pass |-> "none",
             guilds |-> <<>>, gi |-> 0, guild |-> "None",
             servers |-> <<>>, i |-> 0, channel_format |-> <<>>,
             absent_seen |-> FALSE, entry |-> NoEntry, outcome |-> "none",
             info |-> NoInfo, new_name |-> <<>>, sleep_for |-> 0,
             unpaced |-> FALSE]

\* no record of an entry in a pass
NoRecord == [valid |-> FALSE]
HistOff == [on |-> FALSE,
            cur |-> [g \in Guilds |-> [id \in ServerIds |-> NoRecord]],
            prev |-> [g \in Guilds |-> [id \in ServerIds |-> NoRecord]]]

\* __init__: the registered defaults, no session, no task
InitCog ==
    /\ update_interval = DefaultInterval
    /\ api_token = NoToken
    /\ servers = [g \in Guilds |-> <<>>]
    /\ category_id = [g \in Guilds |-> NoCategory]
    /\ channel_format = [g \in Guilds |-> DefaultFormat]
    /\ bot_ready = FALSE
    /\ since_ready = 0
    /\ channels = [g \in Guilds |-> [c \in ChanIds |-> NoChannel]]
    /\ categories = [g \in Guilds |-> CategoryIds]
    /\ next_id = 1
    /\ session = "none"
    /\ loop = IdleLoop
    /\ add_task = [s \in AddSlots |-> IdleTask]
    /\ remove_task = [s \in RemoveSlots |-> IdleTask]
    /\ servers_lock = [g \in Guilds |-> Free]
    /\ refresh_task = IdleTask
    /\ last_reply = "none"

\* the history is not kept
Init == InitCog /\ hist = HistOff

\* the history is kept
InitHist == InitCog /\ hist = [HistOff EXCEPT !.on = TRUE]

(***************************************************************************)
(* Helpers over the state                                                  *)
(***************************************************************************)
\* guild.get_channel(channel_id): 0 stands for None
get_channel(g, cid) ==
    IF cid \in ChanIds /\ channels[g][cid].state = "alive" THEN cid ELSE 0

\* position of an external id in a guild's servers, 0 when it is not tracked
RECURSIVE IndexOf(_, _, _)
IndexOf(ss, id, k) == IF k > Len(ss) THEN 0
                      ELSE IF ss[k].id = id THEN k
                      ELSE IndexOf(ss, id, k + 1)

\* servers[server_id] = data: an existing key keeps its place
SetItem(ss, id, data) ==
    LET k == IndexOf(ss, id, 1) IN
    IF k = 0 THEN Append(ss, [id |-> id, data |-> data])
    ELSE [ss EXCEPT ![k] = [id |-> id, data |-> data]]

\* a task runs from one await to the next without yielding: nothing else is
\* scheduled while the loop is at one of these positions
LoopBusy == loop.pc \in {"next_guild", "next_entry"}
LoopOver == loop.pc \in {"done", "cancelled", "crashed"}

\* asyncio.sleep(d) of the loop returning: d more seconds have passed
Elapse(d) == since_ready' = IF bot_ready THEN Min(InitialDelay, since_ready + d)
                            ELSE since_ready

\* the outcomes of _fetch_server_info: any failure is None, and so is every
\* request on a closed session
FetchResults == IF session = "open" THEN Infos \cup {NoInfo} ELSE {NoInfo}

(***************************************************************************)
(* The name the loop wants a channel to have (lines 134-152)               *)
(***************************************************************************)
Kwargs(info, server_data, default_name) ==
    LET attributes == Get(info, "attributes", EmptyDict) IN
    [players |-> Get(attributes, "players", 0),
     max |-> Get(attributes, "maxPlayers", 0),
     name |-> Get(server_data, "name", default_name),
     status |-> Get(attributes, "status", offline)]

\* LoopFormat without the offline branch: the template is always applied
LoopFormat_always_template(fmt, server_data, info) ==
    LET attributes == Get(info, "attributes", EmptyDict)
        server_name == Get(attributes, "name", Unknown)
    IN  format(fmt, Kwargs(info, server_data, server_name))

\* lines 134-149: the name before truncation, or the exception format raised
LoopFormat(fmt, server_data, info) ==
    LET attributes == Get(info, "attributes", EmptyDict)
        server_name == Get(attributes, "name", Unknown)
        kw == Kwargs(info, server_data, server_name)
    IN  IF kw.status = offline THEN Ok(OFFLINE_PREFIX \o kw.name)
        ELSE format(fmt, kw)

\* line 152
LoopNewName(fmt, server_data, info) ==
    LET r == LoopFormat(fmt, server_data, info) IN
    IF r.exc # "none" THEN r ELSE Ok(Truncate(r.out))

(***************************************************************************)
(* History of the passes: for each entry, what the loop fetched, computed  *)
(* and did in the current pass and in the one before, and whether the      *)
(* refresh command renamed the channel since                               *)
(***************************************************************************)
Remember ==
    hist' =
        IF ~hist.on THEN hist
        ELSE IF loop.pc \in {"initial_sleep", "sleep"} /\ loop'.pc = "next_guild"
        THEN [hist EXCEPT !.prev = hist.cur, !.cur = HistOff.cur]
        ELSE IF loop.pc \in {"fetch", "edit"}
                /\ (loop'.pc = "pace" \/ loop'.pass = "error")
        THEN [hist EXCEPT !.cur[loop.guild][loop.entry.id] =
                 [valid |-> TRUE,
                  info |-> IF loop.pc = "edit" THEN loop.info ELSE loop'.info,
                  channel_format |-> loop.channel_format,
                  name |-> loop.entry.data.name,
                  channel_id |-> loop.entry.data.channel_id,
                  outcome |-> IF loop'.pc = "pace" THEN loop'.outcome
                              ELSE IF loop.pc = "edit" THEN "failed"
                              ELSE "format_error",
                  touched |-> FALSE]]
        ELSE IF refresh_task.pc = "edit" /\ channels' # channels
        THEN LET touch(r) ==
                     IF r.valid
                        /\ r.channel_id = refresh_task.entry.data.channel_id
                     THEN [r EXCEPT !.touched = TRUE] ELSE r
                 g == refresh_task.guild
             IN  [hist EXCEPT
                     !.cur[g] = [id \in ServerIds |-> touch(hist.cur[g][id])],
                     !.prev[g] = [id \in ServerIds |-> touch(hist.prev[g][id])]]
        ELSE hist

(***************************************************************************)
(* Loading, readiness, unloading                                           *)
(***************************************************************************)
\* cog_load: open the session and create the _update_loop task, which runs up
\* to its first await
cog_load ==
    /\ session = "none"
    /\ session' = "open"
    /\ loop' = [loop EXCEPT !.pc = "wait_until_ready"]
    /\ UNCHANGED <<config_vars, discord_vars, cmd_vars, bot_ready, since_ready>>
    /\ Remember

\* the host signals readiness
BotReady ==
    /\ ~bot_ready
    /\ ~LoopBusy
    /\ bot_ready' = TRUE
    /\ since_ready' = 0
    /\ UNCHANGED <<config_vars, discord_vars, cmd_vars, session, loop>>
    /\ Remember

\* cog_unload: cancel the task if it is still running, close the session
cog_unload ==
    /\ session = "open"
    /\ ~LoopBusy
    /\ session' = "closed"
    /\ loop' = IF LoopOver THEN loop ELSE [loop EXCEPT !.cancel = "requested"]
    /\ UNCHANGED <<config_vars, discord_vars, cmd_vars, bot_ready, since_ready>>
    /\ Remember

(***************************************************************************)
(* _update_loop                                                            *)
(***************************************************************************)
Runs(pc) == loop.pc = pc /\ loop.cancel # "requested"

\* loop_wait_until_ready that does not wait for the signal
loop_skips_ready ==
    /\ Runs("wait_until_ready")
    /\ loop' = [loop EXCEPT !.pc = "initial_sleep", !.sleep_for = InitialDelay]
    /\ UNCHANGED <<config_vars, discord_vars, cmd_vars, bot_ready, since_ready,
                   session>>
    /\ Remember

\* line 69: await self.bot.wait_until_ready()
loop_wait_until_ready ==
    /\ Runs("wait_until_ready")
    /\ bot_ready
    /\ loop' = [loop EXCEPT !.pc = "initial_sleep", !.sleep_for = InitialDelay]
    /\ UNCHANGED <<config_vars, discord_vars, cmd_vars, bot_ready, since_ready,
                   session>>
    /\ Remember

\* the locals of a pass that starts: for guild in self.bot.guilds
StartPass(l) == [IdleLoop EXCEPT !.pc = "next_guild", !.cancel = l.cancel,
                                 !.pass = "running", !.guilds = BotGuilds]

\* lines 70 and 81: the sleep before a pass is over, the pass starts
loop_wake ==
    /\ Runs("initial_sleep") \/ Runs("sleep")
    /\ Elapse(loop.sleep_for)
    /\ loop' = StartPass(loop)
    /\ UNCHANGED <<config_vars, discord_vars, cmd_vars, bot_ready, session>>
    /\ Remember

\* lines 80-81 after a pass that returned: read the interval and sleep
EndPass(l) == [IdleLoop EXCEPT !.pc = "sleep", !.cancel = l.cancel,
                               !.pass = "completed",
                               !.sleep_for = update_interval]

\* AbortPass with the exception leaving the task instead of being logged
AbortPass_raises(l) == [IdleLoop EXCEPT !.pc = "crashed", !.cancel = l.cancel,
                                        !.pass = "error"]

\* lines 77-81: an exception left the pass and is logged; then as above
AbortPass(l) == [IdleLoop EXCEPT !.pc = "sleep", !.cancel = l.cancel,
                                 !.pass = "error",
                                 !.sleep_for = update_interval]

\* lines 113-118: the next guild, its servers and its template
loop_next_guild ==
    /\ Runs("next_guild")
    /\ IF loop.gi = Len(loop.guilds)
       THEN loop' = EndPass(loop)
       ELSE LET g == loop.guilds[loop.gi + 1] IN
            IF servers[g] = <<>>
            THEN loop' = [loop EXCEPT !.gi = loop.gi + 1]
            ELSE loop' = [loop EXCEPT !.gi = loop.gi + 1, !.guild = g,
                                      !.servers = servers[g], !.i = 0,
                                      !.channel_format = channel_format[g],
                                      !.absent_seen = FALSE,
                                      !.entry = NoEntry, !.outcome = "none",
                                      !.pc = "next_entry"]
    /\ UNCHANGED <<config_vars, discord_vars, cmd_vars, bot_ready, since_ready,
                   session>>
    /\ Remember

\* loop_next_entry without the check of lines 125-127
loop_next_entry_unchecked ==
    /\ Runs("next_entry")
    /\ IF loop.i = Len(loop.servers)
       THEN loop' = [loop EXCEPT !.pc = "next_guild"]
       ELSE loop' = [loop EXCEPT !.i = loop.i + 1,
                                 !.entry = loop.servers[loop.i + 1],
                                 !.outcome = "fetch", !.pc = "fetch"]
    /\ UNCHANGED <<config_vars, discord_vars, cmd_vars, bot_ready, since_ready,
                   session>>
    /\ Remember

\* lines 120-130: the next entry; without a channel it is passed over,
\* otherwise its fetch is awaited
loop_next_entry ==
    /\ Runs("next_entry")
    /\ IF loop.i = Len(loop.servers)
       THEN loop' = [loop EXCEPT !.pc = "next_guild"]
       ELSE LET e == loop.servers[loop.i + 1]
                channel_id == Get(e.data, "channel_id", 0)
            IN  IF channel_id = 0 \/ get_channel(loop.guild, channel_id) = 0
                THEN loop' = [loop EXCEPT !.i = loop.i + 1, !.entry = e,
                                          !.outcome = "no_channel"]
                ELSE loop' = [loop EXCEPT !.i = loop.i + 1, !.entry = e,
                                          !.outcome = "fetch", !.pc = "fetch"]
    /\ UNCHANGED <<config_vars, discord_vars, cmd_vars, bot_ready, since_ready,
                   session>>
    /\ Remember

\* AfterAbsent asking again at once for the entry in hand
AfterAbsent_retry(l) == [l EXCEPT !.pc = "fetch", !.outcome = "fetch",
                                  !.absent_seen = TRUE]

\* AfterAbsent leaving the loop over the entries (break for continue)
AfterAbsent_break(l) == [l EXCEPT !.pc = "next_guild", !.outcome = "absent",
                                  !.absent_seen = TRUE]

\* line 132: the fetch returned nothing, continue with the next entry
AfterAbsent(l) == [l EXCEPT !.pc = "next_entry", !.outcome = "absent",
                            !.absent_seen = TRUE]

\* Compare without the comparison: the rename is always sent
Compare_always_edit(l, info, current_name, new_name) ==
    [l EXCEPT !.pc = "edit", !.outcome = "edit", !.info = info,
              !.new_name = new_name, !.unpaced = TRUE]

\* lines 155-157: the rename is sent when the name differs; otherwise the
\* pacing delay follows at once
Compare(l, info, current_name, new_name) ==
    IF current_name # new_name
    THEN [l EXCEPT !.pc = "edit", !.outcome = "edit", !.info = info,
                   !.new_name = new_name, !.unpaced = TRUE]
    ELSE [l EXCEPT !.pc = "pace", !.outcome = "unchanged", !.info = info,
                   !.new_name = new_name, !.unpaced = TRUE,
                   !.sleep_for = PaceDelay]

\* loop_fetch_return reading the guild's template again for every entry
loop_fetch_return_rereads(info) ==
    /\ Runs("fetch")
    /\ LET r == LoopNewName(channel_format[loop.guild], loop.entry.data, info)
           channel == channels[loop.guild][loop.entry.data.channel_id]
       IN  IF Falsy(info) THEN loop' = AfterAbsent(loop)
           ELSE IF r.exc # "none" THEN loop' = AbortPass(loop)
           ELSE loop' = Compare(loop, info, channel.name, r.out)
    /\ UNCHANGED <<config_vars, discord_vars, cmd_vars, bot_ready, since_ready,
                   session>>
    /\ Remember

\* loop_fetch_return dropping from the configuration an entry whose server
\* the service does not know
loop_fetch_return_prunes(info) ==
    /\ Runs("fetch")
    /\ LET r == LoopNewName(loop.channel_format, loop.entry.data, info)
           channel == channels[loop.guild][loop.entry.data.channel_id]
       IN  IF Falsy(info)
           THEN /\ loop' = AfterAbsent(loop)
                /\ servers' = [servers EXCEPT ![loop.guild] =
                       SelectSeq(@, LAMBDA e : e.id # loop.entry.id)]
           ELSE /\ IF r.exc # "none" THEN loop' = AbortPass(loop)
                   ELSE loop' = Compare(loop, info, channel.name, r.out)
                /\ UNCHANGED servers
    /\ UNCHANGED <<update_interval, api_token, category_id, channel_format,
                   discord_vars, cmd_vars, bot_ready, since_ready, session>>
    /\ Remember

\* lines 130-157: the fetch returns; the name is formatted, truncated and
\* compared with the channel's
loop_fetch_return(info) ==
    /\ Runs("fetch")
    /\ LET r == LoopNewName(loop.channel_format, loop.entry.data, info)
           channel == channels[loop.guild][loop.entry.data.channel_id]
       IN  IF Falsy(info) THEN loop' = AfterAbsent(loop)
           ELSE IF r.exc # "none" THEN loop' = AbortPass(loop)
           ELSE loop' = Compare(loop, info, channel.name, r.out)
    /\ UNCHANGED <<config_vars, discord_vars, cmd_vars, bot_ready, since_ready,
                   session>>
    /\ Remember

\* what the destination does with a rename: it applies it, or rejects it
\* (discord.HTTPException, always so for a channel that is gone or a name
\* over the limit), or the request fails below the HTTP layer (OSError)
Renamed(g, cid, name) == [channels EXCEPT ![g][cid].name = name]
EditResults(g, cid, name) ==
    IF channels[g][cid].state = "alive" /\ Len(name) <= NameLimit
    THEN {"ok", "HTTPException", "OSError"}
    ELSE {"HTTPException", "OSError"}

\* AfterEditFailed with the exception leaving the pass
AfterEditFailed_aborts(l) == AbortPass(l)

\* AfterEditFailed going to the next entry without the delay of line 163
AfterEditFailed_unpaced(l) == [l EXCEPT !.pc = "next_entry",
                                        !.outcome = "failed"]

\* lines 159-163: the rejected rename is logged and the loop goes on to the
\* delay
AfterEditFailed(l) == [l EXCEPT !.pc = "pace", !.outcome = "failed",
                                !.sleep_for = PaceDelay]

\* lines 157-163: channel.edit returns or raises
loop_edit_return(res) ==
    /\ Runs("edit")
    /\ LET g == loop.guild
           cid == loop.entry.data.channel_id
       IN  /\ res \in EditResults(g, cid, loop.new_name)
           /\ CASE res = "ok" ->
                    /\ channels' = Renamed(g, cid, loop.new_name)
                    /\ loop' = [loop EXCEPT !.pc = "pace",
                                            !.outcome = "renamed",
                                            !.sleep_for = PaceDelay]
                [] res = "HTTPException" ->
                    /\ loop' = AfterEditFailed(loop)
                    /\ UNCHANGED channels
                [] res = "OSError" ->
                    /\ loop' = AbortPass(loop)
                    /\ UNCHANGED channels
    /\ UNCHANGED <<config_vars, categories, next_id, cmd_vars, bot_ready,
                   since_ready, session>>
    /\ Remember

\* line 163: await asyncio.sleep(2)
loop_pace ==
    /\ Runs("pace")
    /\ Elapse(loop.sleep_for)
    /\ loop' = [loop EXCEPT !.pc = "next_entry", !.info = NoInfo,
                            !.new_name = <<>>, !.sleep_for = 0,
                            !.unpaced = FALSE]
    /\ UNCHANGED <<config_vars, discord_vars, cmd_vars, bot_ready, session>>
    /\ Remember

\* AfterCancel with CancelledError handled like any other exception of the
\* pass: logged, and the loop sleeps and goes on
AfterCancel_logged(l) ==
    [IdleLoop EXCEPT !.cancel = "delivered", !.pc = "sleep", !.pass = "error",
                     !.sleep_for = update_interval]

\* where CancelledError takes the task: inside the pass it is caught and the
\* while loop is left (lines 75-76), elsewhere it ends the task
AfterCancel(l) ==
    [IdleLoop EXCEPT !.cancel = "delivered", !.pass = l.pass,
                     !.pc = IF l.pc \in {"fetch", "edit", "pace"} THEN "done"
                            ELSE "cancelled"]

\* the cancellation reaches the task at the await it is suspended on; a
\* rename already sent may still be applied by the destination
loop_cancelled ==
    /\ loop.cancel = "requested"
    /\ ~LoopBusy /\ ~LoopOver
    /\ loop' = AfterCancel(loop)
    /\ \/ UNCHANGED channels
       \/ /\ loop.pc = "edit"
          /\ "ok" \in EditResults(loop.guild, loop.entry.data.channel_id,
                                  loop.new_name)
          /\ channels' = Renamed(loop.guild, loop.entry.data.channel_id,
                                 loop.new_name)
    /\ UNCHANGED <<config_vars, categories, next_id, cmd_vars, bot_ready,
                   since_ready, session>>
    /\ Remember

LoopSteps ==
    \/ loop_wait_until_ready
    \/ loop_wake
    \/ loop_next_guild
    \/ loop_next_entry
    \/ \E info \in FetchResults : loop_fetch_return(info)
    \/ \E res \in {"ok", "HTTPException", "OSError"} : loop_edit_return(res)
    \/ loop_pace

LoopNext ==
    \/ LoopSteps
    \/ loop_cancelled

(***************************************************************************)
(* Admin commands.  A command is accepted while the cog is loaded; one     *)
(* that is already running goes on after the unload.  The model runs one   *)
(* add or refresh command at a time.                                       *)
(***************************************************************************)
Accepting == session = "open" /\ bot_ready /\ ~LoopBusy
CommandsIdle ==
    /\ \A s \in AddSlots : add_task[s].pc = "idle"
    /\ \A s \in RemoveSlots : remove_task[s].pc = "idle"
    /\ refresh_task.pc = "idle"

\* set_interval refusing only negative intervals
set_interval_no_floor(seconds) ==
    /\ Accepting
    /\ IF seconds < 0
       THEN /\ last_reply' = "at_least_60"
            /\ UNCHANGED update_interval
       ELSE /\ update_interval' = seconds
            /\ last_reply' = "interval_set"
    /\ UNCHANGED <<api_token, servers, category_id, channel_format, discord_vars,
                   bot_ready, since_ready, session, loop, admin_vars,
                   refresh_task>>
    /\ Remember

\* lines 193-203
set_interval(seconds) ==
    /\ Accepting
    /\ IF seconds < MinInterval
       THEN /\ last_reply' = "at_least_60"
            /\ UNCHANGED update_interval
       ELSE /\ update_interval' = seconds
            /\ last_reply' = "interval_set"
    /\ UNCHANGED <<api_token, servers, category_id, channel_format, discord_vars,
                   bot_ready, since_ready, session, loop, admin_vars,
                   refresh_task>>
    /\ Remember

\* lines 173-189: the token is stored; the rest only touches the message
set_token(token) ==
    /\ Accepting
    /\ api_token' = token
    /\ UNCHANGED <<update_interval, servers, category_id, channel_format,
                   discord_vars, bot_ready, since_ready, session, loop,
                   cmd_vars>>
    /\ Remember

\* lines 206-212: the converter only yields a category that exists
set_category(g, category) ==
    /\ Accepting
    /\ category \in categories[g]
    /\ category_id' = [category_id EXCEPT ![g] = category]
    /\ UNCHANGED <<update_interval, api_token, servers, channel_format, discord_vars,
                   bot_ready, since_ready, session, loop, cmd_vars>>
    /\ Remember

\* lines 215-227
set_format(g, format_string) ==
    /\ Accepting
    /\ channel_format' = [channel_format EXCEPT ![g] = format_string]
    /\ UNCHANGED <<update_interval, api_token, servers, category_id, discord_vars,
                   bot_ready, since_ready, session, loop, cmd_vars>>
    /\ Remember

\* a command that has only its answer left to send (await ctx.send)
Reply(text) == [pc |-> "reply", text |-> text]

\* lines 242-254: the category checks, then the fetch is awaited
add_server(s, g, server_id, custom_name) ==
    /\ Accepting
    /\ add_task[s].pc = "idle"
    /\ next_id <= MaxChannels
    /\ add_task' = [add_task EXCEPT ![s] =
           IF category_id[g] = NoCategory THEN Reply("set_category_first")
           ELSE IF category_id[g] \notin categories[g]
           THEN Reply("category_gone")
           ELSE [pc |-> "fetch", guild |-> g, server_id |-> server_id,
                 custom_name |-> custom_name]]
    /\ UNCHANGED <<config_vars, discord_vars, bot_ready, since_ready, session,
                   loop, remove_task, servers_lock, refresh_task, last_reply>>
    /\ Remember

\* line 262: custom_name or attributes.get("name", "Unknown Server")
AddServerName(custom_name, info) ==
    IF custom_name # <<>> THEN custom_name
    ELSE Get(Get(info, "attributes", EmptyDict), "name", UnknownServer)

\* lines 287-293: the name of the channel to create
AddChannelName(fmt, custom_name, info) ==
    LET attributes == Get(info, "attributes", EmptyDict)
        r == format(fmt, [players |-> Get(attributes, "players", 0),
                          max |-> Get(attributes, "maxPlayers", 0),
                          name |-> AddServerName(custom_name, info),
                          status |-> online])
    IN  IF r.exc # "none" THEN r ELSE Ok(Truncate(r.out))

\* add_fetch_return going on to the channel with whatever the fetch returned
add_fetch_return_unverified(s, info) ==
    /\ add_task[s].pc = "fetch"
    /\ ~LoopBusy
    /\ LET t == add_task[s]
           r == AddChannelName(channel_format[t.guild], t.custom_name, info)
       IN  add_task' = [add_task EXCEPT ![s] =
               IF r.exc # "none" THEN IdleTask
               ELSE [pc |-> "create", guild |-> t.guild,
                     server_id |-> t.server_id,
                     server_name |-> AddServerName(t.custom_name, info),
                     channel_name |-> r.out]]
    /\ UNCHANGED <<config_vars, discord_vars, bot_ready, since_ready, session,
                   loop, remove_task, servers_lock, refresh_task, last_reply>>
    /\ Remember

\* lines 254-300: the fetch returns; without a snapshot the command answers
\* and ends, otherwise the channel name is formatted (an exception of format
\* ends the command) and the creation of the channel is awaited
add_fetch_return(s, info) ==
    /\ add_task[s].pc = "fetch"
    /\ ~LoopBusy
    /\ LET t == add_task[s]
           r == AddChannelName(channel_format[t.guild], t.custom_name, info)
       IN  add_task' = [add_task EXCEPT ![s] =
               IF Falsy(info) THEN Reply("could_not_find")
               ELSE IF r.exc # "none" THEN IdleTask
               ELSE [pc |-> "create", guild |-> t.guild,
                     server_id |-> t.server_id,
                     server_name |-> AddServerName(t.custom_name, info),
                     channel_name |-> r.out]]
    /\ UNCHANGED <<config_vars, discord_vars, bot_ready, since_ready, session,
                   loop, remove_task, servers_lock, refresh_task, last_reply>>
    /\ Remember

\* Locked for a context manager that takes no lock
Locked_never(g) == FALSE

\* async with self.config.guild(g).servers() (lines 305 and 325): entering
\* takes the lock of the value and waits while another holder has it; the
\* body gets a copy of the value, which is written back on leaving when it
\* has changed, and then the lock is released
Locked(g) == servers_lock[g] # Free

\* lines 305-311: servers[server_id] = {...} written back by the context
\* manager
Saved(ss, t, channel_id) ==
    SetItem(ss, t.server_id, [channel_id |-> channel_id,
                              name |-> t.server_name])

\* lines 295-311: the channel is created, or the destination refuses (always
\* so when the category is gone or no channel can be created any more); with
\* the channel the entry is saved at once when the lock of servers is free,
\* otherwise the command waits for the lock; the answer of lines 313-317
\* follows everything the command does and is left out
add_create_return(s, res) ==
    /\ add_task[s].pc = "create"
    /\ ~LoopBusy
    /\ LET t == add_task[s]
           g == t.guild
       IN  IF res = "ok"
           THEN /\ category_id[g] \in categories[g]
                /\ next_id <= MaxChannels
                /\ channels' = [channels EXCEPT ![g][next_id] =
                                   [name |-> t.channel_name,
                                    state |-> "alive"]]
                /\ next_id' = next_id + 1
                /\ IF ~Locked(g)
                   THEN /\ servers' = [servers EXCEPT ![g] =
                                          Saved(@, t, next_id)]
                        /\ add_task' = [add_task EXCEPT ![s] = IdleTask]
                   ELSE /\ add_task' = [add_task EXCEPT ![s] =
                               [pc |-> "acquire", guild |-> g,
                                server_id |-> t.server_id,
                                server_name |-> t.server_name,
                                channel_id |-> next_id]]
                        /\ UNCHANGED servers
           ELSE /\ add_task' = [add_task EXCEPT ![s] =
                                   Reply("failed_to_create")]
                /\ UNCHANGED <<channels, next_id, servers>>
    /\ UNCHANGED <<update_interval, api_token, category_id, channel_format, categories,
                   bot_ready, since_ready, session, loop, remove_task,
                   servers_lock, refresh_task, last_reply>>
    /\ Remember

\* line 305 after a wait: the lock is free, the entry is saved
add_save(s) ==
    /\ add_task[s].pc = "acquire"
    /\ ~LoopBusy
    /\ ~Locked(add_task[s].guild)
    /\ servers' = [servers EXCEPT ![add_task[s].guild] =
                      Saved(@, add_task[s], add_task[s].channel_id)]
    /\ add_task' = [add_task EXCEPT ![s] = IdleTask]
    /\ UNCHANGED <<update_interval, api_token, category_id, channel_format, discord_vars,
                   bot_ready, since_ready, session, loop, remove_task,
                   servers_lock, refresh_task, last_reply>>
    /\ Remember

\* the answer of an add command that registered nothing is sent
add_reply_sent(s) ==
    /\ add_task[s].pc = "reply"
    /\ ~LoopBusy
    /\ add_task' = [add_task EXCEPT ![s] = IdleTask]
    /\ UNCHANGED <<config_vars, discord_vars, bot_ready, since_ready, session,
                   loop, remove_task, servers_lock, refresh_task, last_reply>>
    /\ Remember

\* lines 386-395 of refresh: the index of the next entry after i that has a
\* channel, 0 when the iteration is over
RECURSIVE NextWithChannel(_, _, _)
NextWithChannel(g, ss, i) ==
    IF i >= Len(ss) THEN 0
    ELSE LET channel_id == Get(ss[i + 1].data, "channel_id", 0) IN
         IF channel_id # 0 /\ get_channel(g, channel_id) # 0 THEN i + 1
         ELSE NextWithChannel(g, ss, i + 1)

\* the refresh command goes on to its next fetch, or finishes
RefreshAdvance(t) ==
    LET k == NextWithChannel(t.guild, t.servers, t.i) IN
    IF k = 0 THEN IdleTask
    ELSE [t EXCEPT !.pc = "fetch", !.i = k, !.entry = t.servers[k],
                   !.new_name = <<>>]

\* lines 376-380: read the servers, announce the refresh
refresh_servers(g) ==
    /\ Accepting
    /\ CommandsIdle
    /\ IF servers[g] = <<>>
       THEN UNCHANGED refresh_task
       ELSE refresh_task' = [pc |-> "send", guild |-> g,
                             servers |-> servers[g], i |-> 0,
                             channel_format |-> <<>>, entry |-> NoEntry,
                             new_name |-> <<>>]
    /\ UNCHANGED <<config_vars, discord_vars, bot_ready, since_ready, session,
                   loop, admin_vars, last_reply>>
    /\ Remember

\* lines 380-395: the announcement is sent; read the template, start iterating
refresh_sent ==
    /\ refresh_task.pc = "send"
    /\ ~LoopBusy
    /\ refresh_task' = RefreshAdvance(
           [refresh_task EXCEPT !.channel_format =
                                    channel_format[refresh_task.guild]])
    /\ UNCHANGED <<config_vars, discord_vars, bot_ready, since_ready, session,
                   loop, admin_vars, last_reply>>
    /\ Remember

\* lines 400-413: the name the refresh command wants a channel to have
RefreshNewName(fmt, server_data, info) ==
    LET kw == Kwargs(info, server_data, Unknown) IN
    IF kw.status = offline THEN Ok(OFFLINE_PREFIX \o kw.name)
    ELSE LET r == format(fmt, kw) IN
         IF r.exc # "none" THEN r ELSE Ok(Truncate(r.out))

\* lines 395-416: the fetch returns; the rename is sent whatever the
\* channel's name is
refresh_fetch_return(info) ==
    /\ refresh_task.pc = "fetch"
    /\ ~LoopBusy
    /\ LET t == refresh_task
           r == RefreshNewName(t.channel_format, t.entry.data, info)
       IN  IF Falsy(info) THEN refresh_task' = RefreshAdvance(t)
           ELSE IF r.exc # "none" THEN refresh_task' = IdleTask
           ELSE refresh_task' = [t EXCEPT !.pc = "edit", !.new_name = r.out]
    /\ UNCHANGED <<config_vars, discord_vars, bot_ready, since_ready, session,
                   loop, admin_vars, last_reply>>
    /\ Remember

\* lines 415-421: channel.edit returns or raises
refresh_edit_return(res) ==
    /\ refresh_task.pc = "edit"
    /\ ~LoopBusy
    /\ LET t == refresh_task
           cid == t.entry.data.channel_id
       IN  /\ res \in EditResults(t.guild, cid, t.new_name)
           /\ CASE res = "ok" ->
                    /\ channels' = Renamed(t.guild, cid, t.new_name)
                    /\ refresh_task' = [t EXCEPT !.pc = "pace"]
                [] res = "HTTPException" ->
                    /\ refresh_task' = [t EXCEPT !.pc = "pace"]
                    /\ UNCHANGED channels
                [] res = "OSError" ->
                    /\ refresh_task' = IdleTask
                    /\ UNCHANGED channels
    /\ UNCHANGED <<config_vars, categories, next_id, bot_ready, since_ready,
                   session, loop, admin_vars, last_reply>>
    /\ Remember

\* line 421: await asyncio.sleep(2)
refresh_pace ==
    /\ refresh_task.pc = "pace"
    /\ ~LoopBusy
    /\ refresh_task' = RefreshAdvance(refresh_task)
    /\ UNCHANGED <<config_vars, discord_vars, bot_ready, since_ready, session,
                   loop, admin_vars, last_reply>>
    /\ Remember

(***************************************************************************)
(* remove_server                                                           *)
(***************************************************************************)
\* del servers[server_id]
DelItem(ss, id) == SelectSeq(ss, LAMBDA e : e.id # id)

\* lines 325-342 once the lock is taken: an id that is not tracked is
\* answered inside the context manager; a channel that exists is deleted
\* first, which is awaited with the lock held; otherwise the entry is
\* deleted and written back at once
RemoveLocked(s, g, server_id) ==
    LET copy == servers[g]
        k == IndexOf(copy, server_id, 1)
        channel_id == IF k = 0 THEN 0 ELSE Get(copy[k].data, "channel_id", 0)
    IN  IF k = 0
        THEN /\ remove_task' = [remove_task EXCEPT ![s] =
                    [pc |-> "not_tracked", guild |-> g]]
             /\ servers_lock' = [servers_lock EXCEPT ![g] = <<"remove", s>>]
             /\ UNCHANGED servers
        ELSE IF channel_id # 0 /\ get_channel(g, channel_id) # 0
        THEN /\ remove_task' = [remove_task EXCEPT ![s] =
                    [pc |-> "delete", guild |-> g, server_id |-> server_id,
                     servers |-> copy, channel_id |-> channel_id]]
             /\ servers_lock' = [servers_lock EXCEPT ![g] = <<"remove", s>>]
             /\ UNCHANGED servers
        ELSE /\ remove_task' = [remove_task EXCEPT ![s] = IdleTask]
             /\ servers' = [servers EXCEPT ![g] = DelItem(copy, server_id)]
             /\ UNCHANGED servers_lock

\* line 325: the command enters the context manager, or waits for the lock
remove_server(s, g, server_id) ==
    /\ Accepting
    /\ remove_task[s].pc = "idle"
    /\ IF Locked(g)
       THEN /\ remove_task' = [remove_task EXCEPT ![s] =
                   [pc |-> "acquire", guild |-> g, server_id |-> server_id]]
            /\ UNCHANGED <<servers, servers_lock>>
       ELSE RemoveLocked(s, g, server_id)
    /\ UNCHANGED <<update_interval, api_token, category_id, channel_format, discord_vars,
                   bot_ready, since_ready, session, loop, add_task,
                   refresh_task, last_reply>>
    /\ Remember

\* line 325 after a wait: the lock is free
remove_acquired(s) ==
    /\ remove_task[s].pc = "acquire"
    /\ ~LoopBusy
    /\ ~Locked(remove_task[s].guild)
    /\ RemoveLocked(s, remove_task[s].guild, remove_task[s].server_id)
    /\ UNCHANGED <<update_interval, api_token, category_id, channel_format, discord_vars,
                   bot_ready, since_ready, session, loop, add_task,
                   refresh_task, last_reply>>
    /\ Remember

\* lines 337-342: channel.delete returns or raises discord.HTTPException
\* (always so when the channel is gone already); the entry is deleted from
\* the copy, the copy is written back and the lock released
remove_delete_return(s, res) ==
    /\ remove_task[s].pc = "delete"
    /\ ~LoopBusy
    /\ LET t == remove_task[s] IN
       /\ IF res = "ok"
          THEN /\ channels[t.guild][t.channel_id].state = "alive"
               /\ channels' = [channels EXCEPT ![t.guild][t.channel_id] =
                                  [state |-> "deleted", name |-> <<>>]]
          ELSE UNCHANGED channels
       /\ servers' = [servers EXCEPT ![t.guild] =
                         DelItem(t.servers, t.server_id)]
       /\ servers_lock' = [servers_lock EXCEPT ![t.guild] = Free]
    /\ remove_task' = [remove_task EXCEPT ![s] = IdleTask]
    /\ UNCHANGED <<update_interval, api_token, category_id, channel_format, categories,
                   next_id, bot_ready, since_ready, session, loop, add_task,
                   refresh_task, last_reply>>
    /\ Remember

\* line 327: the answer is sent, the context manager is left with the
\* copy unchanged
remove_reply_sent(s) ==
    /\ remove_task[s].pc = "not_tracked"
    /\ ~LoopBusy
    /\ servers_lock' = [servers_lock EXCEPT ![remove_task[s].guild] = Free]
    /\ remove_task' = [remove_task EXCEPT ![s] = IdleTask]
    /\ UNCHANGED <<config_vars, discord_vars, bot_ready, since_ready, session,
                   loop, add_task, refresh_task, last_reply>>
    /\ Remember

(***************************************************************************)
(* The destination changes under the cog                                   *)
(***************************************************************************)
\* somebody deletes a voice channel
ChannelDeleted(g, cid) ==
    /\ ~LoopBusy
    /\ channels[g][cid].state = "alive"
    /\ channels' = [channels EXCEPT ![g][cid] = [state |-> "deleted", name |-> <<>>]]
    /\ UNCHANGED <<config_vars, categories, next_id, cmd_vars, bot_ready,
                   since_ready, session, loop>>
    /\ Remember

\* somebody deletes a category
CategoryDeleted(g, category) ==
    /\ ~LoopBusy
    /\ category \in categories[g]
    /\ categories' = [categories EXCEPT ![g] = @ \ {category}]
    /\ UNCHANGED <<config_vars, channels, next_id, cmd_vars, bot_ready,
                   since_ready, session, loop>>
    /\ Remember

(***************************************************************************)
(* Specifications                                                          *)
(***************************************************************************)
ConfigNext ==
    \/ \E g \in Guilds, category \in CategoryIds : set_category(g, category)
    \/ \E g \in FormatGuilds, t \in Templates : set_format(g, t)

\* one add command at a time, and no other command beside it
AddNext ==
    \/ \E a \in AddInputs : CommandsIdle /\ add_server(1, a[1], a[2], a[3])
    \/ \E info \in FetchResults : add_fetch_return(1, info)
    \/ \E res \in {"ok", "HTTPException"} : add_create_return(1, res)
    \/ add_reply_sent(1)

RefreshNext ==
    \/ \E g \in RefreshGuilds : refresh_servers(g)
    \/ refresh_sent
    \/ \E info \in FetchResults : refresh_fetch_return(info)
    \/ \E res \in {"ok", "HTTPException", "OSError"} : refresh_edit_return(res)
    \/ refresh_pace

WorldNext ==
    \/ BotReady
    \/ \E g \in Guilds, cid \in ChanIds : ChannelDeleted(g, cid)

\* the loop with the commands that configure the guilds and register servers
Next ==
    \/ cog_load
    \/ cog_unload
    \/ LoopNext
    \/ ConfigNext
    \/ AddNext
    \/ WorldNext

Spec == Init /\ [][Next]_vars

\* the same with the refresh command racing the loop, on a cog that stays
\* loaded
NextRefresh ==
    \/ cog_load
    \/ BotReady
    \/ LoopSteps
    \/ \E g \in Guilds, category \in CategoryIds : set_category(g, category)
    \/ \E g \in FormatGuilds, t \in Templates : set_format(g, t)
    \/ AddNext
    \/ RefreshNext

SpecRefresh == Init /\ [][NextRefresh]_vars

\* one server tracked by the loop and refreshed by hand, with the history of
\* the passes kept
HistAddInputs == {<<"g1", "s1", <<>>>>}
NextHist ==
    \/ cog_load
    \/ BotReady
    \/ LoopSteps
    \/ \E category \in CategoryIds : set_category("g1", category)
    \/ \E t \in Templates : set_format("g1", t)
    \/ \E a \in HistAddInputs :
          CommandsIdle /\ add_server(1, a[1], a[2], a[3])
    \/ \E info \in FetchResults : add_fetch_return(1, info)
    \/ \E res \in {"ok", "HTTPException"} : add_create_return(1, res)
    \/ add_reply_sent(1)
    \/ RefreshNext

SpecHist == InitHist /\ [][NextHist]_vars

\* the loop of a cog whose owner changes the interval, with one server
\* registered
NextInterval ==
    \/ cog_load
    \/ cog_unload
    \/ BotReady
    \/ LoopNext
    \/ \E seconds \in IntervalInputs : set_interval(seconds)
    \/ \E token \in TokenInputs : set_token(token)
    \/ \E category \in CategoryIds : set_category("g1", category)
    \/ \E t \in Templates : set_format("g1", t)
    \/ \E a \in HistAddInputs :
          CommandsIdle /\ add_server(1, a[1], a[2], a[3])
    \/ \E info \in FetchResults : add_fetch_return(1, info)
    \/ \E res \in {"ok", "HTTPException"} : add_create_return(1, res)
    \/ add_reply_sent(1)

SpecInterval == Init /\ [][NextInterval]_vars

\* the add and remove commands of one guild, two of each at a time, and
\* the category that may go, with the loop waiting
AdminAddInputs == {<<"g1", "s1", <<>>>>, <<"g1", "s2", <<>>>>}
NextAdmin ==
    \/ cog_load
    \/ BotReady
    \/ \E category \in CategoryIds : set_category("g1", category)
    \/ \E s \in AddSlots, a \in AdminAddInputs :
          add_server(s, a[1], a[2], a[3])
    \/ \E s \in AddSlots, info \in FetchResults : add_fetch_return(s, info)
    \/ \E s \in AddSlots, res \in {"ok", "HTTPException"} :
          add_create_return(s, res)
    \/ \E s \in AddSlots : add_save(s)
    \/ \E s \in AddSlots : add_reply_sent(s)
    \/ \E s \in RemoveSlots, id \in ServerIds : remove_server(s, "g1", id)
    \/ \E s \in RemoveSlots : remove_acquired(s)
    \/ \E s \in RemoveSlots, res \in {"ok", "HTTPException"} :
          remove_delete_return(s, res)
    \/ \E s \in RemoveSlots : remove_reply_sent(s)
    \/ \E category \in CategoryIds : CategoryDeleted("g1", category)

SpecAdmin == Init /\ [][NextAdmin]_vars

\* the event loop runs a task whose await has completed, a request is
\* answered or times out, a sleep ends
FairSpec == Spec /\ WF_vars(LoopNext)
FairInterval == SpecInterval /\ WF_vars(LoopNext)

(***************************************************************************)
(* Properties                                                              *)
(***************************************************************************)
\* the channel of the entry the loop is working on
LoopChannel == channels[loop.guild][loop.entry.data.channel_id]

\* C2: an exception raised while the loop processes one entry prevents
\* neither the remaining entries of that guild nor the remaining guilds from
\* being processed in the same pass: when a pass ends by an exception, no
\* entry of the guild and no later guild with servers was left unprocessed
C2_NestedIsolation ==
    [][(loop.pass = "running" /\ loop'.pass = "error") =>
          /\ loop.i = Len(loop.servers)
          /\ \A k \in (loop.gi + 1)..Len(loop.guilds) :
                servers[loop.guilds[k]] = <<>>]_vars

\* the name the claims expect for the entry in hand: the template applied to
\* the snapshot the loop holds, cut to 100 characters
C3_Desired ==
    LET r == LoopFormat(loop.channel_format, loop.entry.data, loop.info) IN
    SubSeq(r.out, 1, Min(Len(r.out), 100))

\* C3: once the fetch of an entry of a guild has returned nothing, the loop
\* still goes through every entry of that guild, and an entry whose fetch
\* returns a snapshot is compared with, and when it differs renamed to, the
\* name formatted from its own snapshot
C3_FetchIsolation ==
    loop.absent_seen =>
        /\ loop.pc = "next_guild" => loop.i = Len(loop.servers)
        /\ loop.pc = "edit" =>
              loop.new_name = C3_Desired /\ loop.outcome = "edit"
        /\ loop.pc = "pace" =>
              /\ loop.new_name = C3_Desired
              /\ loop.outcome \in {"renamed", "unchanged", "failed"}
              /\ (loop.outcome # "failed" /\ LoopChannel.state = "alive") =>
                            LoopChannel.name = C3_Desired

\* an entry was renamed after the fetch of an earlier entry of its guild had
\* returned nothing
C3_Witness ==
    /\ loop.absent_seen
    /\ loop.pc = "pace"
    /\ loop.outcome = "renamed"
    /\ loop.i = 2

\* the entry the loop takes next has no channel
C4_NextIsOrphan ==
    /\ loop.pc = "next_entry"
    /\ loop.i < Len(loop.servers)
    /\ get_channel(loop.guild, loop.servers[loop.i + 1].data.channel_id) = 0

\* C4: an entry whose channel_id resolves to no channel is passed over: the
\* pass goes on without an error, no fetch and no rename is sent for it, and
\* the loop leaves the entry in the guild's servers
C4_MissingChannel ==
    /\ [][(C4_NextIsOrphan /\ loop' # loop) =>
             /\ loop'.pc = "next_entry"
             /\ loop'.pass = "running"
             /\ loop'.outcome = "no_channel"
             /\ loop'.i = loop.i + 1
             /\ servers' = servers
             /\ channels' = channels]_vars
    /\ [](loop.outcome = "no_channel" =>
             /\ loop.pc \in {"next_entry", "next_guild"}
             /\ IndexOf(servers[loop.guild], loop.entry.id, 1) # 0)

\* the loop has passed over an entry whose channel was deleted
C4_Witness ==
    /\ loop.outcome = "no_channel"
    /\ channels[loop.guild][loop.entry.data.channel_id].state = "deleted"

\* C5: setinterval with less than 60 seconds is refused and leaves
\* update_interval as it was, so that update_interval is never below 60
C5_RateLimitFloor ==
    /\ [](update_interval >= 60)
    /\ [][\A s \in IntervalInputs :
             (s < 60 /\ set_interval(s)) =>
                 update_interval' = update_interval
                 /\ last_reply' = "at_least_60"]_vars

\* a setinterval was refused after another had been accepted
C5_Witness == last_reply = "at_least_60" /\ update_interval = 60

\* C6: when the fetched status is "offline" the name the loop computes is
\* "[OFFLINE] " followed by the stored name of the entry (the name of the
\* snapshot when none is stored), cut to 100 characters, whatever the
\* template and the player counts are
C6_OfflineOverride ==
    (loop.pc \in {"edit", "pace"}
     /\ loop.info.attributes.status = <<"o", "f", "f", "l", "i", "n", "e">>) =>
        LET label == IF "name" \in DOMAIN loop.entry.data
                     THEN loop.entry.data.name
                     ELSE loop.info.attributes.name
            full == <<"[", "O", "F", "F", "L", "I", "N", "E", "]", " ">>
                    \o label
        IN  loop.new_name = SubSeq(full, 1, Min(Len(full), 100))

\* an offline snapshot came in under a template that names an unknown
\* placeholder, for an entry whose label does not fit in 100 characters
C6_Witness ==
    /\ loop.pc = "edit"
    /\ loop.info = OfflineInfo
    /\ loop.channel_format = MapFormat
    /\ Len(loop.entry.data.name) > 90

\* C7: every name sent to the destination, by the loop's rename, by the
\* refresh command's rename and by the add command's channel creation, has
\* at most 100 characters
C7_Truncation ==
    /\ loop.pc = "edit" => Len(loop.new_name) <= 100
    /\ refresh_task.pc = "edit" => Len(refresh_task.new_name) <= 100
    /\ \A s \in AddSlots :
          add_task[s].pc = "create" => Len(add_task[s].channel_name) <= 100

\* C8: the loop starts no pass, hence sends no fetch and no rename, before
\* the host has signalled readiness and 10 more seconds have passed
C8_StartupGating ==
    loop.pass # "none" => bot_ready /\ since_ready >= 10

\* the loop is waiting for its first fetch of a pass
C8_Witness == loop.pc = "fetch" /\ bot_ready

\* C9: a pass that returns or is left by an exception is followed by a sleep
\* of the update_interval stored at that moment and then by another pass;
\* the task ends only by a cancellation
C9_LoopGoesOn ==
    /\ [][(loop.pass = "running" /\ loop'.pass \in {"completed", "error"}) =>
             loop'.pc = "sleep" /\ loop'.sleep_for = update_interval]_vars
    /\ [](LoopOver => loop.cancel = "delivered")
    /\ (loop.pc = "sleep") ~> (loop.pass = "running" \/ loop.cancel # "no")

\* the loop sleeps the interval an admin has set, after a pass that an
\* exception ended
C9_Witness ==
    /\ loop.pc = "sleep"
    /\ loop.pass = "error"
    /\ loop.sleep_for = 60
    /\ loop.cancel = "no"

\* C10: once the task is cancelled the loop takes no further step of its
\* pass: the cancellation is delivered at the await it is suspended on and
\* the task is over, with no fetch and no rename sent after it
C10_Cancellation ==
    /\ [][loop.cancel = "requested" =>
             loop' = loop \/ loop'.cancel = "delivered"]_vars
    /\ [](loop.cancel = "delivered" => LoopOver)
    /\ (loop.cancel = "requested") ~> LoopOver

\* the cancellation reached the loop in the middle of a pass, entries left
C10_Witness ==
    /\ loop.cancel = "delivered"
    /\ loop.pc = "done"
    /\ loop.pass = "running"

(***************************************************************************)
(* C1                                                                      *)
(***************************************************************************)
\* what the pass before the current one recorded for the entry in hand
C1_Before == hist.prev[loop.guild][loop.entry.id]

\* the entry in hand was processed by the pass before with the same snapshot,
\* the same template and the same stored name
C1_SameInputs ==
    /\ loop.pc \in {"edit", "pace"}
    /\ C1_Before.valid
    /\ C1_Before.info = loop.info
    /\ C1_Before.channel_format = loop.channel_format
    /\ C1_Before.name = loop.entry.data.name

\* the pass before left the channel bearing the desired name and nobody
\* renamed or replaced the channel since
C1_Kept ==
    /\ C1_Before.outcome \in {"renamed", "unchanged"}
    /\ ~C1_Before.touched
    /\ C1_Before.channel_id = loop.entry.data.channel_id

\* C1 as stated: two consecutive passes that see the same snapshot, template
\* and stored name for an entry: the second pass issues no rename call
C1_Idempotence_Stated == ~(C1_SameInputs /\ loop.pc = "edit")

\* C1: two consecutive passes that see the same snapshot, template and stored
\* name for an entry, where the first pass left the channel bearing the
\* desired name and nobody renamed or replaced the channel in between: the
\* second pass issues no rename call
C1_Idempotence == ~(C1_SameInputs /\ C1_Kept /\ loop.pc = "edit")

\* the first pass renamed the channel, the second pass saw the same inputs
\* and went on without a rename call
C1_Witness ==
    /\ C1_SameInputs /\ C1_Kept
    /\ C1_Before.outcome = "renamed"
    /\ loop.pc = "pace" /\ loop.outcome = "unchanged"

(***************************************************************************)
(* C11                                                                     *)
(***************************************************************************)
\* the loop compares the channel of the entry in hand with the desired name
C11_Applies == loop.pc = "fetch" /\ loop'.pc \in {"edit", "pace"}

\* C11: in a pass, a channel is compared (and renamed) only when the 2-second
\* delay has been slept since the comparison before it, in the same guild or
\* in an earlier one; the delay follows the comparison whether the channel
\* was renamed, left unchanged or the rename was rejected; an entry whose
\* fetch returned nothing is followed by no delay
C11_Pacing ==
    /\ [][C11_Applies => ~loop.unpaced /\ loop'.unpaced]_vars
    /\ [][(loop.pc = "edit" /\ loop'.pass = "running"
           /\ loop'.cancel = loop.cancel /\ loop' # loop) =>
             /\ loop'.pc = "pace"
             /\ loop'.outcome \in {"renamed", "failed"}]_vars
    /\ [](loop.pc = "pace" =>
             /\ loop.sleep_for = 2
             /\ loop.unpaced
             /\ loop.outcome \in {"renamed", "unchanged", "failed"})
    /\ [][(loop.unpaced /\ ~loop'.unpaced /\ loop'.pass = "running"
           /\ loop'.cancel = loop.cancel) =>
             loop.pc = "pace" /\ loop'.pc = "next_entry"]_vars
    /\ [][(loop.pc = "fetch" /\ loop'.outcome = "absent") =>
             /\ loop'.pc = "next_entry"
             /\ loop'.sleep_for = 0
             /\ since_ready' = since_ready]_vars

\* the second entry of a guild is in its delay, after a rejected rename
C11_Witness ==
    /\ loop.pc = "pace" /\ loop.outcome = "failed" /\ loop.i = 2
    /\ loop.sleep_for = 2

(***************************************************************************)
(* C12                                                                     *)
(***************************************************************************)
\* the entry of an external id in a guild's servers, NoEntry when there is
\* none
C12_Entry(ss, id) ==
    IF IndexOf(ss, id, 1) = 0 THEN NoEntry ELSE ss[IndexOf(ss, id, 1)]

\* an add command for id saves its entry in this step
C12_AddSaves(s, g, id) ==
    /\ add_task[s].pc \in {"create", "acquire"}
    /\ add_task[s].guild = g /\ add_task[s].server_id = id
    /\ add_task'[s] = IdleTask

\* a remove command for id writes the servers back in this step
C12_RemoveWrites(s, g, id) ==
    \/ /\ remove_task[s].pc \in {"acquire", "delete"}
       /\ remove_task[s].guild = g /\ remove_task[s].server_id = id
       /\ remove_task'[s] = IdleTask
    \/ /\ remove_task[s].pc = "idle"
       /\ remove_server(s, g, id)
       /\ remove_task'[s] = IdleTask

\* C12: with add and remove commands of one guild running at the same time,
\* in any combination, an entry of the tracked servers is created, changed
\* or dropped only by a step of a command for that entry's external id; the
\* step in which an add command saves leaves its entry in place with the
\* channel it created, and the step in which a remove command writes back
\* leaves its entry gone
C12_EntryScoped ==
    [][\A g \in Guilds, id \in ServerIds :
         /\ C12_Entry(servers'[g], id) # C12_Entry(servers[g], id) =>
               \/ \E s \in AddSlots : C12_AddSaves(s, g, id)
               \/ \E s \in RemoveSlots : C12_RemoveWrites(s, g, id)
         /\ \A s \in AddSlots : C12_AddSaves(s, g, id) =>
               /\ C12_Entry(servers'[g], id) # NoEntry
               /\ C12_Entry(servers'[g], id).data.name
                     = add_task[s].server_name
               /\ channels'[g][C12_Entry(servers'[g], id).data.channel_id].name
                     = IF add_task[s].pc = "create"
                       THEN add_task[s].channel_name
                       ELSE channels[g][add_task[s].channel_id].name
         /\ \A s \in RemoveSlots : C12_RemoveWrites(s, g, id) =>
               C12_Entry(servers'[g], id) = NoEntry]_vars

\* an add command has created its channel and waits for the lock of servers,
\* which a remove command for another external id holds while it deletes its
\* channel
C12_Witness ==
    \E a \in AddSlots, r \in RemoveSlots :
        /\ add_task[a].pc = "acquire"
        /\ remove_task[r].pc = "delete"
        /\ servers_lock[add_task[a].guild] = <<"remove", r>>
        /\ remove_task[r].guild = add_task[a].guild
        /\ remove_task[r].server_id # add_task[a].server_id

(***************************************************************************)
(* C13                                                                     *)
(***************************************************************************)
\* a step changes nothing of the tracked servers and creates no channel
C13_NothingRegistered ==
    servers' = servers /\ channels' = channels /\ next_id' = next_id

\* C13: an add command given while no category is set, or while the category
\* set no longer exists, only answers: it awaits no fetch, creates no channel
\* and leaves the tracked servers alone; it goes on to create the channel
\* only from a fetch that returned a snapshot, and a fetch that returned
\* nothing ends it with an answer, no channel and the tracked servers
\* unchanged; a refused creation ends it with the tracked servers unchanged;
\* and the step in which it stores its entry comes after the creation of the
\* channel the entry names
C13_AddPreconditions ==
    [][\A s \in AddSlots :
         /\ \A a \in AdminAddInputs :
               (/\ add_server(s, a[1], a[2], a[3])
                /\ \/ category_id[a[1]] = "None"
                   \/ category_id[a[1]] \notin categories[a[1]]) =>
                   /\ add_task'[s].pc = "reply"
                   /\ C13_NothingRegistered
         /\ (add_task[s].pc = "reply" /\ add_task'[s] # add_task[s]) =>
               add_task'[s].pc = "idle" /\ C13_NothingRegistered
         /\ (add_task[s].pc # "create" /\ add_task'[s].pc = "create") =>
               /\ add_task[s].pc = "fetch"
               /\ \E info \in Infos : add_fetch_return(s, info)
         /\ add_fetch_return(s, [none |-> TRUE]) =>
               /\ add_task'[s] = [pc |-> "reply", text |-> "could_not_find"]
               /\ C13_NothingRegistered
         /\ (add_task[s].pc = "create" /\ add_task'[s].pc = "reply") =>
               C13_NothingRegistered
         /\ (add_task'[s] # add_task[s] /\ servers' # servers) =>
               /\ add_task[s].pc \in {"create", "acquire"}
               /\ LET g == add_task[s].guild
                      e == C12_Entry(servers'[g], add_task[s].server_id)
                  IN  /\ e # NoEntry
                      /\ channels'[g][e.data.channel_id].state = "alive"
                      /\ add_task[s].pc = "create" =>
                            channels[g][e.data.channel_id].state = "none"
                      /\ add_task[s].pc = "acquire" =>
                            e.data.channel_id = add_task[s].channel_id]_vars

\* one add command was given after the category had gone and another got
\* nothing from its fetch: both only have their answer left to send, and
\* nothing is tracked and no channel was created
C13_Witness ==
    /\ \E a, b \in AddSlots :
          /\ add_task[a] = [pc |-> "reply", text |-> "category_gone"]
          /\ add_task[b] = [pc |-> "reply", text |-> "could_not_find"]
    /\ servers["g1"] = <<>>
    /\ next_id = 1

(***************************************************************************)
(* C14                                                                     *)
(***************************************************************************)
\* the loop takes up the next entry of the guild in hand
C14_TakesEntry ==
    /\ loop.pc = "next_entry" /\ loop.i < Len(loop.servers)
    /\ loop' # loop /\ loop'.cancel = loop.cancel

C15_NoNoOpRenames ==
    /\ [][(loop.pc # "edit" /\ loop'.pc = "edit") =>
             channels[loop'.guild][loop'.entry.data.channel_id].name
                 # loop'.new_name]_vars
    /\ [][(refresh_task.pc # "edit" /\ refresh_task'.pc = "edit") =>
             channels[refresh_task'.guild]
                     [refresh_task'.entry.data.channel_id].name
                 # refresh_task'.new_name]_vars

(***************************************************************************)
(* C16                                                                     *)
(***************************************************************************)
\* C16: for the entry, the template and the snapshot from which the loop has
\* computed a name, the refresh command computes the same name
C16_RefreshAgrees ==
    loop.pc \in {"edit", "pace"} =>
        RefreshNewName(loop.channel_format, loop.entry.data, loop.info)
            = Ok(loop.new_name)

(***************************************************************************)
(* C17                                                                     *)
(***************************************************************************)
\* C17: with the template "{name} {map}", whose second placeholder is none
\* of players, max, name and status, an online snapshot is formatted without
\* error into the stored name followed by the text {map} as it stands, and
\* the loop goes on to compare the channel with that name
C17_PermissiveTemplates ==
    [][(/\ loop.pc = "fetch"
        /\ loop.channel_format = MapFormat
        /\ loop_fetch_return(OnlineInfo)) =>
          /\ loop'.pass = "running"
          /\ loop'.pc \in {"edit", "pace"}
          /\ loop'.new_name =
                Truncate(loop.entry.data.name \o <<" ", "{", "m", "a", "p", "}">>)]_vars

(***************************************************************************)
(* C18                                                                     *)
(***************************************************************************)
\* the loop is where it was in its iteration over the guilds and the entries
C18_SamePlace ==
    /\ loop'.guilds = loop.guilds /\ loop'.gi = loop.gi
    /\ loop'.servers = loop.servers /\ loop'.i = loop.i

\* C18: a rename that the destination rejects with an HTTP error does not
\* end the pass: the loop sleeps the 2-second delay with its place in the
\* iteration kept, and then takes up the next entry of the guild, or goes on
\* to the next guild when this was the last entry
C18_SinkFailureContained ==
    /\ [][(loop.pc = "edit" /\ loop_edit_return("HTTPException")) =>
             /\ loop'.pass = "running"
             /\ loop'.pc = "pace" /\ loop'.sleep_for = 2
             /\ loop'.outcome = "failed"
             /\ C18_SamePlace]_vars
    /\ [][(loop.outcome = "failed" /\ loop.pc = "pace" /\ loop' # loop
           /\ loop'.cancel = loop.cancel) =>
             /\ loop'.pass = "running"
             /\ loop'.pc = "next_entry"
             /\ C18_SamePlace]_vars
    /\ [][(loop.outcome = "failed" /\ loop.pc = "next_entry" /\ loop' # loop
           /\ loop'.cancel = loop.cancel) =>
             /\ loop'.pass = "running"
             /\ IF loop.i < Len(loop.servers)
                THEN /\ loop'.i = loop.i + 1
                     /\ loop'.entry = loop.servers[loop.i + 1]
                     /\ loop'.pc \in {"next_entry", "fetch"}
                ELSE loop'.pc = "next_guild" /\ loop'.gi = loop.gi]_vars

\* the rename of the first of two entries was rejected, the delay is over and
\* the loop is about to take the second
C18_Witness ==
    /\ loop.outcome = "failed" /\ loop.pc = "next_entry"
    /\ loop.pass = "running"
    /\ loop.i = 1 /\ Len(loop.servers) = 2

(***************************************************************************)
(* C19                                                                     *)
(***************************************************************************)
\* the external ids of a sequence of entries are pairwise different
C19_DistinctIds(ss) ==
    \A j, k \in 1..Len(ss) : ss[j].id = ss[k].id => j = k

\* C19: in a pass the loop goes through the guilds and, in a guild, through
\* its entries, each once and in order; a fetch is started for the entry
\* that follows the last one taken; when a fetch returns, whatever it
\* returns, the loop starts no other fetch for that entry: it goes on in the
\* iteration or the pass ends
C19_NoRetry ==
    /\ [](loop.pass = "running" =>
             /\ C19_DistinctIds(loop.servers)
             /\ \A j, k \in 1..Len(loop.guilds) :
                   loop.guilds[j] = loop.guilds[k] => j = k)
    /\ [][(loop.pc # "fetch" /\ loop'.pc = "fetch") =>
             /\ loop.pc = "next_entry"
             /\ loop'.i = loop.i + 1
             /\ loop'.servers = loop.servers /\ loop'.gi = loop.gi
             /\ loop'.entry = loop.servers[loop'.i]]_vars
    /\ [][(loop.pc = "fetch" /\ loop' # loop /\ loop'.cancel = loop.cancel) =>
             /\ loop'.pc # "fetch"
             /\ loop'.pass = "running" => C18_SamePlace]_vars
    /\ [][(loop.pass = "running" /\ loop'.pass = "running"
           /\ loop'.cancel = loop.cancel) =>
             /\ loop'.gi >= loop.gi
             /\ loop'.gi = loop.gi =>
                   loop'.i >= loop.i /\ loop'.servers = loop.servers
             /\ loop'.gi # loop.gi => loop.pc = "next_guild"]_vars

\* the fetch for the first entry of a guild returned nothing and the loop
\* awaits the fetch for the second
C19_Witness ==
    /\ loop.pc = "fetch" /\ loop.absent_seen
    /\ loop.i = 2 /\ loop.entry = loop.servers[2]


(***************************************************************************)
(* C20                                                                     *)
(***************************************************************************)
\* the commands that store configuration
C20_AdminCommand ==
    \/ \E seconds \in IntervalInputs : set_interval(seconds)
    \/ \E token \in TokenInputs : set_token(token)
    \/ \E g \in Guilds, category \in CategoryIds : set_category(g, category)
    \/ \E g \in Guilds, t \in Templates : set_format(g, t)
    \/ \E s \in AddSlots, res \in {"ok", "HTTPException"} :
          add_create_return(s, res)

\* C20: the background loop only reads configuration.  No step of
\* _update_loop or _update_all_channels changes a guild's tracked servers,
\* category or template, nor the global token or interval; whenever one of
\* them changes, the step is a step of an admin command and the loop is
\* where it was.
C20_LoopReadOnly ==
    /\ [][LoopNext => UNCHANGED config_vars]_vars
    /\ [][loop' # loop => UNCHANGED config_vars]_vars
    /\ [][config_vars' # config_vars => C20_AdminCommand]_vars

\* a pass has renamed a channel after the owner stored a token and an
\* interval, and the configuration is still what the commands stored
C20_Witness ==
    /\ loop.pc = "pace"
    /\ loop.outcome = "renamed"
    /\ api_token \in TokenInputs
    /\ update_interval = MinInterval
    /\ category_id["g1"] \in CategoryIds
    /\ servers[loop.guild] = loop.servers
    /\ channel_format[loop.guild] = loop.channel_format


(***************************************************************************)
(* C21                                                                     *)
(***************************************************************************)
\* the loop is among the entries of a guild
C21_InGuild(l) ==
    l.pass = "running" /\ l.pc \in {"next_entry", "fetch", "edit", "pace"}

\* C21: the loop reads a guild's template once, when it comes to the guild,
\* and takes the one that is stored then; while it is among the guild's
\* entries its template stays what it read, whatever setformat stores
\* meanwhile; every name it computes for an entry, and every failure to
\* compute one, comes from the template it read.
C21_TemplateSnapshot ==
    /\ [][(loop.pc = "next_guild" /\ C21_InGuild(loop')) =>
             loop'.channel_format = channel_format[loop'.guild]]_vars
    /\ [][(C21_InGuild(loop) /\ C21_InGuild(loop')) =>
             /\ loop'.channel_format = loop.channel_format
             /\ loop'.guild = loop.guild]_vars
    /\ [](loop.pc \in {"edit", "pace"} =>
             LoopNewName(loop.channel_format, loop.entry.data, loop.info)
                = Ok(loop.new_name))
    /\ [][(loop.pc = "fetch" /\ loop'.pass = "error"
           /\ loop'.cancel = loop.cancel) =>
             \E info \in FetchResults :
                /\ ~Falsy(info)
                /\ LoopNewName(loop.channel_format, loop.entry.data,
                               info).exc # "none"]_vars

\* setformat stored another template while the loop was among the entries of
\* the guild, and the name of the guild's second entry has been computed from
\* the template read before; the stored template would not have given it
C21_Witness ==
    /\ loop.pc \in {"edit", "pace"}
    /\ loop.i = 2
    /\ channel_format[loop.guild] # loop.channel_format
    /\ LoopNewName(loop.channel_format, loop.entry.data, loop.info)
          = Ok(loop.new_name)
    /\ LoopNewName(channel_format[loop.guild], loop.entry.data, loop.info)
          # Ok(loop.new_name)


(***************************************************************************)
(* C22                                                                     *)
(***************************************************************************)
\* the places of the entries of guild g that hold channel cid
C22_EntriesOf(g, cid) ==
    {k \in 1..Len(servers[g]) : Get(servers[g][k].data, "channel_id", 0) = cid}

\* C22: once the add and remove commands given so far have returned, every
\* channel that add created and that has not been deleted is the channel_id
\* of exactly one tracked entry of its guild: no two entries share a channel
\* and no created channel is without an entry.
C22_ChannelEntryCorrespondence ==
    CommandsIdle =>
       \A g \in Guilds, cid \in ChanIds :
          channels[g][cid].state = "alive" =>
             Cardinality(C22_EntriesOf(g, cid)) = 1
====
